---- MODULE Spec2Model ----
(***************************************************************************)
(* State-machine model of the intrusive doubly linked list of              *)
(* src/containers/include/IntrusiveListN.h.                                *)
(*                                                                         *)
(* A pool of caller-owned elements, each carrying one IntrusiveListHook    *)
(* (prev / next), and two IntrusiveList objects (m_head / m_tail /         *)
(* m_size).  Pointers are element numbers, Null is the null pointer.       *)
(*                                                                         *)
(* m_size is a std::size_t.  It is only ever incremented, decremented,     *)
(* added, subtracted and compared with 0, so the value v of the field is   *)
(* represented by the integer n with v = n mod 2^64 and |n| <= MaxSize:    *)
(* -1 stands for the wrapped value 2^64 - 1.  Two fields are equal exactly *)
(* when their representatives are.                                         *)
(*                                                                         *)
(* Every member function is an operator from a program state (a record     *)
(* with the fields prev, next, m_head, m_tail, m_size and exc) to the      *)
(* program state it leaves; exc is "ok" on a normal return, the kind of    *)
(* the std::runtime_error thrown, "crash" when the code dereferences a     *)
(* null pointer, "hang" when one of its loops never ends, and "ill-formed" *)
(* when the call does not compile.                                         *)
(*                                                                         *)
(* The owning list ListN<T> of ListN.h (variable lst) and the dynamic      *)
(* array VectorN<T> of VectorN.h (variable vec) are modelled further down, *)
(* each with the specifications that drive it.                             *)
(***************************************************************************)
EXTENDS Integers, Sequences, FiniteSets

\* Number of elements (Node objects) the caller owns.
NumElems == 3
\* Cap on |m_size| kept by the guards of the actions.
MaxSize == 4
\* Number of calls the caller makes.
MaxCalls == 5
\* Number of calls the caller of SpecDeque makes.
MaxDequeCalls == 6
\* Number of calls the caller of SpecRoundTrip makes.
MaxRoundTripCalls == 7
\* Number of calls the caller of SpecBackOps makes.
MaxBackCalls == 8
\* Number of heap nodes a ListN can hold.
MaxNodes == 3
\* Number of calls the caller of SpecListN and of SpecListNInsert makes.
MaxListCalls == 5
\* Largest capacity a VectorN is given.
MaxCapacity == 4
\* Number of calls the caller of SpecVectorN makes.
MaxVectorCalls == 3

Null == 0
Elem == 1..NumElems
Ptr == 0..NumElems
Lists == {1, 2}

VARIABLES
    prev,      \* prev[e]   : IntrusiveListHook::prev of element e
    next,      \* next[e]   : IntrusiveListHook::next of element e
    m_head,    \* m_head[l] : IntrusiveList::m_head of list l
    m_tail,    \* m_tail[l] : IntrusiveList::m_tail of list l
    m_size,    \* m_size[l] : IntrusiveList::m_size of list l
    call,      \* the last member function called, with its arguments
    outcome,   \* how that call ended
    pre,       \* the program state that call started from
    ncalls,    \* the number of calls made so far
    ref,       \* reference sequence (used by SpecDeque, SpecRoundTrip, SpecListN)
    lst,       \* the ListN<T> object of ListN.h and its heap nodes
    vec        \* vec[v] : the VectorN<T> object v of VectorN.h

vars ==
    <<prev, next, m_head, m_tail, m_size, call, outcome, pre, ncalls, ref, lst, vec>>

\* The program state as a record, as the member functions below take it.
Cur ==
    [prev |-> prev, next |-> next, m_head |-> m_head, m_tail |-> m_tail,
     m_size |-> m_size, exc |-> "ok"]

\* IntrusiveList(): m_head(nullptr), m_tail(nullptr), m_size(0); hooks are
\* constructed with prev{nullptr}, next{nullptr}.
Constructed ==
    [prev |-> [e \in Elem |-> Null], next |-> [e \in Elem |-> Null],
     m_head |-> [l \in Lists |-> Null], m_tail |-> [l \in Lists |-> Null],
     m_size |-> [l \in Lists |-> 0], exc |-> "ok"]

Throw(s, kind) == [s EXCEPT !.exc = kind]
Crash(s) == [s EXCEPT !.exc = "crash"]
Hang(s) == [s EXCEPT !.exc = "hang"]

\* A variant of is_linked that asks for both pointers to be set.
is_linked_both(s, e) == s.prev[e] # Null /\ s.next[e] # Null

\* IntrusiveListHook::is_linked
is_linked(s, e) == s.prev[e] # Null \/ s.next[e] # Null

\* IntrusiveList::empty / size
empty(s, l) == s.m_size[l] = 0
size(s, l) == s.m_size[l]

\* IntrusiveList::begin / end, IntrusiveListIterator::operator++ / operator--
begin(s, l) == s.m_head[l]
end == Null
inc(s, it) == IF it # Null THEN s.next[it] ELSE it
dec(s, it) == IF it # Null THEN s.prev[it] ELSE it

\* IntrusiveList::front / back: exc is the error thrown ("ok" when none is),
\* value the element whose hook is returned; get_value(nullptr) is nullptr,
\* and the reference made from it is a null-pointer read.
front(s, l) ==
    IF empty(s, l) THEN [exc |-> "EmptyContainer", value |-> Null]
    ELSE IF begin(s, l) = Null THEN [exc |-> "crash", value |-> Null]
    ELSE [exc |-> "ok", value |-> begin(s, l)]

back(s, l) ==
    IF empty(s, l) THEN [exc |-> "EmptyContainer", value |-> Null]
    ELSE IF s.m_tail[l] = Null THEN [exc |-> "crash", value |-> Null]
    ELSE [exc |-> "ok", value |-> s.m_tail[l]]

\* IntrusiveList::push_front
push_front(s, l, e) ==
    IF is_linked(s, e) THEN Throw(s, "AlreadyLinked")
    ELSE LET oldHead == s.m_head[l]
             s1 == [s EXCEPT !.prev[e] = Null]
             s2 == [s1 EXCEPT !.next[e] = oldHead]
             s3 == IF oldHead # Null THEN [s2 EXCEPT !.prev[oldHead] = e] ELSE s2
             s4 == [s3 EXCEPT !.m_head[l] = e]
             s5 == IF s4.m_tail[l] = Null THEN [s4 EXCEPT !.m_tail[l] = e] ELSE s4
         IN  [s5 EXCEPT !.m_size[l] = @ + 1]

\* IntrusiveList::push_back
push_back(s, l, e) ==
    IF is_linked(s, e) THEN Throw(s, "AlreadyLinked")
    ELSE LET oldTail == s.m_tail[l]
             s1 == [s EXCEPT !.next[e] = Null]
             s2 == [s1 EXCEPT !.prev[e] = oldTail]
             s3 == IF oldTail # Null THEN [s2 EXCEPT !.next[oldTail] = e] ELSE s2
             s4 == [s3 EXCEPT !.m_tail[l] = e]
             s5 == IF s4.m_head[l] = Null THEN [s4 EXCEPT !.m_head[l] = e] ELSE s4
         IN  [s5 EXCEPT !.m_size[l] = @ + 1]

\* IntrusiveList::insert
insert(s, l, pos, e) ==
    IF is_linked(s, e) THEN Throw(s, "AlreadyLinked")
    ELSE IF pos = begin(s, l) THEN push_front(s, l, e)
    ELSE IF pos = end THEN push_back(s, l, e)
    ELSE LET before == s.prev[pos]
             s1 == [s EXCEPT !.next[e] = pos]
             s2 == [s1 EXCEPT !.prev[e] = before]
             s3 == IF s2.prev[pos] # Null
                   THEN [s2 EXCEPT !.next[s2.prev[pos]] = e]
                   ELSE [s2 EXCEPT !.m_head[l] = e]
             s4 == [s3 EXCEPT !.prev[pos] = e]
         IN  [s4 EXCEPT !.m_size[l] = @ + 1]

\* pop_front without the test for the empty list.
pop_front_unguarded(s, l) ==
    IF s.m_head[l] = Null THEN Crash(s)
    ELSE LET oldHead == s.m_head[l]
             newHead == s.next[oldHead]
             s1 == [s EXCEPT !.m_head[l] = newHead]
             s2 == IF newHead # Null
                   THEN [s1 EXCEPT !.prev[newHead] = Null]
                   ELSE [s1 EXCEPT !.m_tail[l] = Null]
             s3 == [s2 EXCEPT !.prev[oldHead] = Null, !.next[oldHead] = Null]
         IN  [s3 EXCEPT !.m_size[l] = @ - 1]

\* IntrusiveList::pop_front
pop_front(s, l) ==
    IF empty(s, l) THEN s
    ELSE IF s.m_head[l] = Null THEN Crash(s)
    ELSE LET oldHead == s.m_head[l]
             newHead == s.next[oldHead]
             s1 == [s EXCEPT !.m_head[l] = newHead]
             s2 == IF newHead # Null
                   THEN [s1 EXCEPT !.prev[newHead] = Null]
                   ELSE [s1 EXCEPT !.m_tail[l] = Null]
             s3 == [s2 EXCEPT !.prev[oldHead] = Null]
             s4 == [s3 EXCEPT !.next[oldHead] = Null]
         IN  [s4 EXCEPT !.m_size[l] = @ - 1]

\* IntrusiveList::pop_back
pop_back(s, l) ==
    IF empty(s, l) \/ s.m_tail[l] = Null THEN s
    ELSE LET oldTail == s.m_tail[l]
             newTail == s.prev[oldTail]
             s1 == [s EXCEPT !.m_tail[l] = newTail]
             s2 == IF newTail # Null
                   THEN [s1 EXCEPT !.next[newTail] = Null]
                   ELSE s1
             s3 == [s2 EXCEPT !.prev[oldTail] = Null]
             s4 == [s3 EXCEPT !.next[oldTail] = Null]
         IN  [s4 EXCEPT !.m_size[l] = @ - 1]

\* erase with the test for the end iterator made after the count has been
\* decremented.
erase_late(s, l, pos) ==
    IF pos = Null THEN Throw([s EXCEPT !.m_size[l] = @ - 1], "InvalidPosition")
    ELSE LET s1 == IF s.prev[pos] # Null
                   THEN [s EXCEPT !.next[s.prev[pos]] = s.next[pos]]
                   ELSE [s EXCEPT !.m_head[l] = s.next[pos]]
             s2 == IF s1.next[pos] # Null
                   THEN [s1 EXCEPT !.prev[s1.next[pos]] = s1.prev[pos]]
                   ELSE [s1 EXCEPT !.m_tail[l] = s1.prev[pos]]
             s3 == [s2 EXCEPT !.next[pos] = Null, !.prev[pos] = Null]
         IN  [s3 EXCEPT !.m_size[l] = @ - 1]

\* IntrusiveList::erase.  The iterator returned is hook->next as read on
\* entry (erase_result).
erase(s, l, pos) ==
    IF pos = Null THEN Throw(s, "InvalidPosition")
    ELSE LET s1 == IF s.prev[pos] # Null
                   THEN [s EXCEPT !.next[s.prev[pos]] = s.next[pos]]
                   ELSE [s EXCEPT !.m_head[l] = s.next[pos]]
             s2 == IF s1.next[pos] # Null
                   THEN [s1 EXCEPT !.prev[s1.next[pos]] = s1.prev[pos]]
                   ELSE [s1 EXCEPT !.m_tail[l] = s1.prev[pos]]
             s3 == [s2 EXCEPT !.next[pos] = Null]
             s4 == [s3 EXCEPT !.prev[pos] = Null]
         IN  [s4 EXCEPT !.m_size[l] = @ - 1]

erase_result(s, pos) == s.next[pos]

\* A variant of remove that leaves the prev pointer of the next hook alone.
remove_forward_only(s, e) ==
    IF ~is_linked(s, e) THEN s
    ELSE LET s1 == IF s.prev[e] # Null
                   THEN [s EXCEPT !.next[s.prev[e]] = s.next[e]]
                   ELSE s
             s3 == [s1 EXCEPT !.prev[e] = Null]
         IN  [s3 EXCEPT !.next[e] = Null]

\* IntrusiveList::remove (static)
remove(s, e) ==
    IF ~is_linked(s, e) THEN s
    ELSE LET s1 == IF s.prev[e] # Null
                   THEN [s EXCEPT !.next[s.prev[e]] = s.next[e]]
                   ELSE s
             s2 == IF s1.next[e] # Null
                   THEN [s1 EXCEPT !.prev[s1.next[e]] = s1.prev[e]]
                   ELSE s1
             s3 == [s2 EXCEPT !.prev[e] = Null]
         IN  [s3 EXCEPT !.next[e] = Null]

\* IntrusiveList::clear: while (!empty()) pop_back().  pop_back is
\* deterministic, so an iteration that changes nothing repeats for ever.
RECURSIVE clear(_, _)
clear(s, l) ==
    IF empty(s, l) THEN s
    ELSE LET t == pop_back(s, l)
         IN  IF t = s THEN Hang(s) ELSE clear(t, l)

\* A variant of swap that leaves m_size alone.
swap_keeping_size(s, l, other) ==
    [s EXCEPT !.m_head[l] = s.m_head[other], !.m_head[other] = s.m_head[l],
              !.m_tail[l] = s.m_tail[other], !.m_tail[other] = s.m_tail[l]]

\* IntrusiveList::swap
swap(s, l, other) ==
    [s EXCEPT !.m_head[l] = s.m_head[other], !.m_head[other] = s.m_head[l],
              !.m_tail[l] = s.m_tail[other], !.m_tail[other] = s.m_tail[l],
              !.m_size[l] = s.m_size[other], !.m_size[other] = s.m_size[l]]

\* A variant of merge that leaves the prev pointer of other's first hook
\* alone.
merge_one_way(s, l, other) ==
    IF empty(s, other) THEN s
    ELSE IF s.m_tail[l] # Null
    THEN IF s.m_head[other] = Null THEN Crash(s)
         ELSE LET s1 == [s EXCEPT !.next[s.m_tail[l]] = s.m_head[other]]
                  s3 == [s1 EXCEPT !.m_tail[l] = s1.m_tail[other]]
                  s4 == [s3 EXCEPT !.m_size[l] = @ + s3.m_size[other]]
                  s5 == [s4 EXCEPT !.m_head[other] = Null, !.m_tail[other] = Null]
              IN  [s5 EXCEPT !.m_size[other] = 0]
    ELSE LET s1 == [s EXCEPT !.m_head[l] = s.m_head[other]]
             s2 == [s1 EXCEPT !.m_tail[l] = s1.m_tail[other]]
             s3 == [s2 EXCEPT !.m_size[l] = @ + s2.m_size[other]]
             s4 == [s3 EXCEPT !.m_head[other] = Null, !.m_tail[other] = Null]
         IN  [s4 EXCEPT !.m_size[other] = 0]

\* IntrusiveList::merge
merge(s, l, other) ==
    IF empty(s, other) THEN s
    ELSE IF s.m_tail[l] # Null
    THEN IF s.m_head[other] = Null THEN Crash(s)
         ELSE LET s1 == [s EXCEPT !.next[s.m_tail[l]] = s.m_head[other]]
                  s2 == [s1 EXCEPT !.prev[s1.m_head[other]] = s1.m_tail[l]]
                  s3 == [s2 EXCEPT !.m_tail[l] = s2.m_tail[other]]
                  s4 == [s3 EXCEPT !.m_size[l] = @ + s3.m_size[other]]
                  s5 == [s4 EXCEPT !.m_head[other] = Null, !.m_tail[other] = Null]
              IN  [s5 EXCEPT !.m_size[other] = 0]
    ELSE LET s1 == [s EXCEPT !.m_head[l] = s.m_head[other]]
             s2 == [s1 EXCEPT !.m_tail[l] = s1.m_tail[other]]
             s3 == [s2 EXCEPT !.m_size[l] = @ + s2.m_size[other]]
             s4 == [s3 EXCEPT !.m_head[other] = Null, !.m_tail[other] = Null]
         IN  [s4 EXCEPT !.m_size[other] = 0]

\* The tail shared by merge and splice(pos, other): the counts are summed
\* and other is emptied.
adopt_all(s, l, other) ==
    LET s1 == [s EXCEPT !.m_size[l] = @ + s.m_size[other]]
        s2 == [s1 EXCEPT !.m_head[other] = Null, !.m_tail[other] = Null]
    IN  [s2 EXCEPT !.m_size[other] = 0]

\* IntrusiveList::splice(iterator pos, IntrusiveList& other)
splice_list(s, l, pos, other) ==
    IF empty(s, other) THEN s
    ELSE IF pos = Null
    THEN IF s.m_tail[l] # Null
         THEN IF s.m_head[other] = Null THEN Crash(s)
              ELSE LET s1 == [s EXCEPT !.next[s.m_tail[l]] = s.m_head[other]]
                       s2 == [s1 EXCEPT !.prev[s1.m_head[other]] = s1.m_tail[l]]
                       s3 == [s2 EXCEPT !.m_tail[l] = s2.m_tail[other]]
                   IN  adopt_all(s3, l, other)
         ELSE LET s1 == [s EXCEPT !.m_head[l] = s.m_head[other]]
                  s2 == [s1 EXCEPT !.m_tail[l] = s1.m_tail[other]]
              IN  adopt_all(s2, l, other)
    ELSE LET before == s.prev[pos]
             s2 == IF before # Null
                   THEN IF s.m_head[other] = Null THEN Crash(s)
                        ELSE LET s1 == [s EXCEPT !.next[before] = s.m_head[other]]
                             IN  [s1 EXCEPT !.prev[s1.m_head[other]] = before]
                   ELSE [s EXCEPT !.m_head[l] = s.m_head[other]]
         IN  IF s2.exc # "ok" THEN s2
             ELSE IF s2.m_tail[other] = Null THEN Crash(s2)
             ELSE LET s3 == [s2 EXCEPT !.prev[pos] = s2.m_tail[other]]
                      s4 == [s3 EXCEPT !.next[s3.m_tail[other]] = pos]
                  IN  adopt_all(s4, l, other)

\* A variant of splice(pos, other, it) that reads posHook->prev as it was
\* on entry, before the hook of it is taken out.
splice_one_stale_prev(s, l, pos, other, it) ==
    IF it = Null THEN Throw(s, "InvalidPosition")
    ELSE LET s1 == IF s.prev[it] # Null
                   THEN [s EXCEPT !.next[s.prev[it]] = s.next[it]]
                   ELSE [s EXCEPT !.m_head[other] = s.next[it]]
             s2 == IF s1.next[it] # Null
                   THEN [s1 EXCEPT !.prev[s1.next[it]] = s1.prev[it]]
                   ELSE [s1 EXCEPT !.m_tail[other] = s1.prev[it]]
             s3 == [s2 EXCEPT !.m_size[other] = @ - 1]
             s9 == IF pos = Null
                   THEN LET s4 == [s3 EXCEPT !.prev[it] = s3.m_tail[l]]
                            s5 == [s4 EXCEPT !.next[it] = Null]
                            s6 == IF s5.m_tail[l] # Null
                                  THEN [s5 EXCEPT !.next[s5.m_tail[l]] = it]
                                  ELSE s5
                            s7 == [s6 EXCEPT !.m_tail[l] = it]
                        IN  IF s7.m_head[l] = Null
                            THEN [s7 EXCEPT !.m_head[l] = it]
                            ELSE s7
                   ELSE LET s4 == [s3 EXCEPT !.next[it] = pos]
                            s5 == [s4 EXCEPT !.prev[it] = s.prev[pos]]
                            s6 == IF s.prev[pos] # Null
                                  THEN [s5 EXCEPT !.next[s.prev[pos]] = it]
                                  ELSE [s5 EXCEPT !.m_head[l] = it]
                        IN  [s6 EXCEPT !.prev[pos] = it]
         IN  [s9 EXCEPT !.m_size[l] = @ + 1]

\* IntrusiveList::splice(iterator pos, IntrusiveList& other, iterator it)
splice_one(s, l, pos, other, it) ==
    IF it = Null THEN Throw(s, "InvalidPosition")
    ELSE LET s1 == IF s.prev[it] # Null
                   THEN [s EXCEPT !.next[s.prev[it]] = s.next[it]]
                   ELSE [s EXCEPT !.m_head[other] = s.next[it]]
             s2 == IF s1.next[it] # Null
                   THEN [s1 EXCEPT !.prev[s1.next[it]] = s1.prev[it]]
                   ELSE [s1 EXCEPT !.m_tail[other] = s1.prev[it]]
             s3 == [s2 EXCEPT !.m_size[other] = @ - 1]
             s9 == IF pos = Null
                   THEN LET s4 == [s3 EXCEPT !.prev[it] = s3.m_tail[l]]
                            s5 == [s4 EXCEPT !.next[it] = Null]
                            s6 == IF s5.m_tail[l] # Null
                                  THEN [s5 EXCEPT !.next[s5.m_tail[l]] = it]
                                  ELSE s5
                            s7 == [s6 EXCEPT !.m_tail[l] = it]
                        IN  IF s7.m_head[l] = Null
                            THEN [s7 EXCEPT !.m_head[l] = it]
                            ELSE s7
                   ELSE LET s4 == [s3 EXCEPT !.next[it] = pos]
                            s5 == [s4 EXCEPT !.prev[it] = s4.prev[pos]]
                            s6 == IF s5.prev[pos] # Null
                                  THEN [s5 EXCEPT !.next[s5.prev[pos]] = it]
                                  ELSE [s5 EXCEPT !.m_head[l] = it]
                        IN  [s6 EXCEPT !.prev[pos] = it]
         IN  [s9 EXCEPT !.m_size[l] = @ + 1]

\* The two loops of splice(pos, other, first, last):
\*   auto it = first; while (it != last) { blockTail = it.getNode(); ++it; }
\* walk(s, it, last, blockTail, count, seen) gives blockTail and count when
\* the loop ends, and hang when it does not: operator++ leaves a null
\* iterator null, and a hook visited twice is visited for ever.
RECURSIVE walk(_, _, _, _, _, _)
walk(s, it, last, blockTail, count, seen) ==
    IF it = last THEN [hang |-> FALSE, blockTail |-> blockTail, count |-> count]
    ELSE IF it = Null \/ it \in seen
    THEN [hang |-> TRUE, blockTail |-> blockTail, count |-> count]
    ELSE walk(s, inc(s, it), last, it, count + 1, seen \cup {it})

\* IntrusiveList::splice(iterator pos, IntrusiveList& other, iterator first,
\* iterator last)
splice_range(s, l, pos, other, first, last) ==
    IF first = last THEN s
    ELSE LET w1 == walk(s, first, last, Null, 0, {})
         IN  IF w1.hang THEN Hang(s)
             ELSE
             LET blockTail == w1.blockTail
                 s1 == IF s.prev[first] # Null
                       THEN [s EXCEPT !.next[s.prev[first]] = last]
                       ELSE [s EXCEPT !.m_head[other] = last]
                 s2 == IF last # Null
                       THEN [s1 EXCEPT !.prev[last] = s1.prev[first]]
                       ELSE [s1 EXCEPT !.m_tail[other] = s1.prev[first]]
                 w2 == walk(s2, first, last, Null, 0, {})
             IN  IF w2.hang THEN Hang(s2)
                 ELSE
                 LET count == w2.count
                     s3 == [s2 EXCEPT !.m_size[other] = @ - count]
                     s8 == IF pos = Null
                           THEN LET s4 == IF s3.m_tail[l] # Null
                                          THEN LET u == [s3 EXCEPT !.next[s3.m_tail[l]] = first]
                                               IN  [u EXCEPT !.prev[first] = u.m_tail[l]]
                                          ELSE LET u == [s3 EXCEPT !.m_head[l] = first]
                                               IN  [u EXCEPT !.prev[first] = Null]
                                    s5 == [s4 EXCEPT !.m_tail[l] = blockTail]
                                IN  [s5 EXCEPT !.next[blockTail] = Null]
                           ELSE LET before == s3.prev[pos]
                                    s4 == IF before # Null
                                          THEN LET u == [s3 EXCEPT !.next[before] = first]
                                               IN  [u EXCEPT !.prev[first] = before]
                                          ELSE LET u == [s3 EXCEPT !.m_head[l] = first]
                                               IN  [u EXCEPT !.prev[first] = Null]
                                    s5 == [s4 EXCEPT !.prev[pos] = blockTail]
                                IN  [s5 EXCEPT !.next[blockTail] = pos]
                 IN  [s8 EXCEPT !.m_size[l] = @ + count]

\* The part of a program state that the loops of remove_if and unique read:
\* everything but m_size (erase only decrements it).
links(s) == <<s.prev, s.next, s.m_head, s.m_tail>>

\* IntrusiveList::remove_if, with the predicate given as the set P of the
\* elements it holds for.  One call of remove_if_loop is one iteration of
\*   for (auto it = begin(); it != end(); )
\*   { T& value = *it; auto next = ++it; if (p(value)) erase(--it); it = next; }
\* The loop is deterministic: an iteration that starts where an earlier one
\* started (same iterator, same links) repeats for ever.
RECURSIVE remove_if_loop(_, _, _, _, _)
remove_if_loop(s, l, P, it, seen) ==
    IF it = end THEN s
    ELSE IF <<it, links(s)>> \in seen THEN Hang(s)
    ELSE LET value == it
             nxt == inc(s, it)
             s1 == IF value \in P THEN erase(s, l, dec(s, nxt)) ELSE s
         IN  IF s1.exc # "ok" THEN s1
             ELSE remove_if_loop(s1, l, P, nxt, seen \cup {<<it, links(s)>>})

remove_if(s, l, P) == remove_if_loop(s, l, P, begin(s, l), {})

\* IntrusiveList::unique, with Node::operator== given by the data of the
\* nodes.  One call of unique_loop is one iteration of
\*   while (nextIt != end())
\*   { if (*it == *nextIt) nextIt = erase(nextIt); else { ++it; ++nextIt; } }
\* Dereferencing a null it is a null-pointer read.
RECURSIVE unique_loop(_, _, _, _, _, _)
unique_loop(s, l, data, it, nextIt, seen) ==
    IF nextIt = end THEN s
    ELSE IF it = Null THEN Crash(s)
    ELSE IF <<it, nextIt, links(s)>> \in seen THEN Hang(s)
    ELSE LET here == <<it, nextIt, links(s)>>
         IN  IF data[it] = data[nextIt]
             THEN unique_loop(erase(s, l, nextIt), l, data, it,
                              erase_result(s, nextIt), seen \cup {here})
             ELSE unique_loop(s, l, data, inc(s, it), inc(s, nextIt),
                              seen \cup {here})

unique(s, l, data) ==
    IF empty(s, l) THEN s
    ELSE unique_loop(s, l, data, begin(s, l), inc(s, begin(s, l)), {})

\* IntrusiveList::sort.  Its body is the call sort(std::less<T>()), and the
\* class declares no sort that takes a comparator: the only sort takes no
\* argument.  The call is ill-formed, so a program that calls sort() is not
\* built and no list is ever sorted; exc is "ill-formed".
sort(s, l) == [s EXCEPT !.exc = "ill-formed"]

\* IntrusiveList::~IntrusiveList runs clear(); the storage is then taken by a
\* newly constructed list (m_head(nullptr), m_tail(nullptr), m_size(0)).
destroy(s, l) ==
    LET s1 == clear(s, l)
    IN  IF s1.exc # "ok" THEN s1
        ELSE [s1 EXCEPT !.m_head[l] = Null, !.m_tail[l] = Null, !.m_size[l] = 0]

(***************************************************************************)
(* The caller.  It owns the elements and the two lists and calls one       *)
(* member function after the other.  The positions it passes are the       *)
(* iterators it can get from the list: begin(), the iterators operator++   *)
(* makes of it, and end().                                                 *)
(***************************************************************************)

\* The hooks met following the field f (prev or next) from hook h, cut after
\* NumElems + 1 of them: a path that long has met some hook twice and never
\* reaches null.
RECURSIVE path(_, _, _)
path(f, h, fuel) ==
    IF h = Null \/ fuel = 0 THEN <<>> ELSE <<h>> \o path(f, f[h], fuel - 1)

Range(q) == {q[i] : i \in 1..Len(q)}
Last(q) == IF Len(q) = 0 THEN Null ELSE q[Len(q)]
ReachesNull(q) == Len(q) <= NumElems

\* List l of program state s read forwards (from m_head by next) and
\* backwards (from m_tail by prev).
Forward(s, l) == path(s.next, s.m_head[l], NumElems + 1)
Backward(s, l) == path(s.prev, s.m_tail[l], NumElems + 1)

RECURSIVE Reverse(_)
Reverse(q) == IF Len(q) = 0 THEN <<>> ELSE Reverse(Tail(q)) \o <<Head(q)>>

\* The members of list l: the hooks met from m_head by next and from m_tail
\* by prev.
Members(s, l) == Range(Forward(s, l)) \cap Range(Backward(s, l))

\* List l is the chain its fields describe: m_size hooks from m_head to
\* m_tail by next, and the same hooks back by prev.
WellFormed(s, l) ==
    LET fw == Forward(s, l)
        bw == Backward(s, l)
    IN  /\ ReachesNull(fw)
        /\ Len(fw) = s.m_size[l]
        /\ Last(fw) = s.m_tail[l]
        /\ ReachesNull(bw)
        /\ Len(bw) = s.m_size[l]
        /\ Last(bw) = s.m_head[l]
        /\ bw = Reverse(fw)

Unlinked(s, e) == s.prev[e] = Null /\ s.next[e] = Null

\* No hook is in the chains of both lists and no chain meets a hook twice.
NoSharing(s) ==
    /\ Range(Forward(s, 1)) \cap Range(Forward(s, 2)) = {}
    /\ \A l \in Lists : ReachesNull(Forward(s, l))

\* Iterating list l from begin() to end() meets size() elements.
Counted(s, l) == Len(Forward(s, l)) = s.m_size[l]

\* The hooks met iterating list l forwards or backwards.
Hooks(s, l) == Range(Forward(s, l)) \cup Range(Backward(s, l))

\* The two lists have no hook in common, neither has a cycle, and each
\* iterates over as many elements as its size() says.
Readable(s) ==
    /\ Hooks(s, 1) \cap Hooks(s, 2) = {}
    /\ \A l \in Lists : ReachesNull(Forward(s, l)) /\ ReachesNull(Backward(s, l))
    /\ \A l \in Lists : Counted(s, l)

\* The hooks of list l are properly chained from m_head to m_tail, both
\* ways, and none of them is in the chain of the other list.
ProperChain(s, l) ==
    /\ ReachesNull(Forward(s, l))
    /\ Backward(s, l) = Reverse(Forward(s, l))
    /\ \A o \in Lists \ {l} : Range(Forward(s, o)) \cap Range(Forward(s, l)) = {}

\* The part of q before position pos (all of q when pos is end()) and the
\* part from pos on.
RECURSIVE Before(_, _)
Before(q, pos) ==
    IF Len(q) = 0 \/ Head(q) = pos THEN <<>> ELSE <<Head(q)>> \o Before(Tail(q), pos)

From(q, pos) == SubSeq(q, Len(Before(q, pos)) + 1, Len(q))

\* q with every run of adjacent elements of equal data cut down to its
\* first element.
RECURSIVE Dedup(_, _)
Dedup(q, data) ==
    IF Len(q) <= 1 THEN q
    ELSE IF data[q[1]] = data[q[2]]
    THEN Dedup(<<q[1]>> \o SubSeq(q, 3, Len(q)), data)
    ELSE <<q[1]>> \o Dedup(Tail(q), data)

\* q is in non-descending order of data.
Sorted(q, data) == \A i \in 1..(Len(q) - 1) : data[q[i]] <= data[q[i + 1]]

RECURSIVE Keep(_, _)
Keep(q, S) ==
    IF Len(q) = 0 THEN <<>>
    ELSE (IF Head(q) \in S THEN <<Head(q)>> ELSE <<>>) \o Keep(Tail(q), S)

\* The hooks operator++ reaches from hook h.
RECURSIVE reach(_, _, _)
reach(s, h, seen) ==
    IF h = Null \/ h \in seen THEN seen ELSE reach(s, s.next[h], seen \cup {h})

\* The iterators of list l: those between begin() and end(), and end().
Iter(s, l) == reach(s, begin(s, l), {}) \cup {end}

\* The values Node::data takes.
Data == {0, 1}

NoArgs ==
    [op |-> "none", l |-> 0, other |-> 0, e |-> 0, pos |-> 0, first |-> 0,
     last |-> 0, P |-> {}, data |-> <<>>]

Snapshot ==
    [prev |-> prev, next |-> next, m_head |-> m_head, m_tail |-> m_tail,
     m_size |-> m_size]

\* The program state before the last call, as the member functions take it.
Pre ==
    [prev |-> pre.prev, next |-> pre.next, m_head |-> pre.m_head,
     m_tail |-> pre.m_tail, m_size |-> pre.m_size, exc |-> "ok"]

\* Heap addresses of the nodes of a ListN, and the VectorN objects.
NodeId == 1..MaxNodes
Vectors == {1, 2}

\* ListN(): m_head(nullptr), m_tail(nullptr), m_size(0); no node allocated.
\* exc and ret are the error and the iterator the last call ended with.
ListN_Constructed ==
    [data |-> [n \in NodeId |-> 0], prev |-> [n \in NodeId |-> Null],
     next |-> [n \in NodeId |-> Null], live |-> {},
     m_head |-> Null, m_tail |-> Null, m_size |-> 0, exc |-> "ok", ret |-> Null]

\* VectorN(): m_size(0), m_capacity(0), m_data(nullptr).  m_data is the
\* array of m_capacity elements, <<>> for the null pointer.
VectorN_Constructed ==
    [m_size |-> 0, m_capacity |-> 0, m_data |-> <<>>, exc |-> "ok"]

Running == outcome \notin {"crash", "hang", "ill-formed"}

\* The call c ends in program state r.  A crashed or hung call never returns:
\* the model keeps the state it started from and stops.
StepWithin(r, c, bound) ==
    /\ ncalls < bound
    /\ \A l \in Lists : r.m_size[l] \in -MaxSize..MaxSize
    /\ LET t == IF r.exc \in {"crash", "hang"} THEN Cur ELSE r
       IN  /\ prev' = t.prev
           /\ next' = t.next
           /\ m_head' = t.m_head
           /\ m_tail' = t.m_tail
           /\ m_size' = t.m_size
    /\ outcome' = r.exc
    /\ call' = c
    /\ pre' = Snapshot
    /\ ncalls' = ncalls + 1
    /\ UNCHANGED <<lst, vec>>

Step(r, c) == StepWithin(r, c, MaxCalls)

Commit(r, c) == Step(r, c) /\ UNCHANGED ref

Init ==
    /\ prev = Constructed.prev
    /\ next = Constructed.next
    /\ m_head = Constructed.m_head
    /\ m_tail = Constructed.m_tail
    /\ m_size = Constructed.m_size
    /\ call = NoArgs
    /\ outcome = "ok"
    /\ pre = Snapshot
    /\ ncalls = 0
    /\ ref = <<>>
    /\ lst = ListN_Constructed
    /\ vec = [v \in Vectors |-> VectorN_Constructed]

Front(l) ==
    /\ Running
    /\ Commit(Throw(Cur, front(Cur, l).exc), [NoArgs EXCEPT !.op = "front", !.l = l])

Back(l) ==
    /\ Running
    /\ Commit(Throw(Cur, back(Cur, l).exc), [NoArgs EXCEPT !.op = "back", !.l = l])

PushFront(l, e) ==
    /\ Running
    /\ Commit(push_front(Cur, l, e), [NoArgs EXCEPT !.op = "push_front", !.l = l, !.e = e])

PushBack(l, e) ==
    /\ Running
    /\ Commit(push_back(Cur, l, e), [NoArgs EXCEPT !.op = "push_back", !.l = l, !.e = e])

Insert(l, pos, e) ==
    /\ Running
    /\ pos \in Iter(Cur, l)
    /\ Commit(insert(Cur, l, pos, e),
              [NoArgs EXCEPT !.op = "insert", !.l = l, !.pos = pos, !.e = e])

PopFront(l) ==
    /\ Running
    /\ Commit(pop_front(Cur, l), [NoArgs EXCEPT !.op = "pop_front", !.l = l])

PopBack(l) ==
    /\ Running
    /\ Commit(pop_back(Cur, l), [NoArgs EXCEPT !.op = "pop_back", !.l = l])

Erase(l, pos) ==
    /\ Running
    /\ pos \in Iter(Cur, l)
    /\ Commit(erase(Cur, l, pos), [NoArgs EXCEPT !.op = "erase", !.l = l, !.pos = pos])

Remove(e) ==
    /\ Running
    /\ Commit(remove(Cur, e), [NoArgs EXCEPT !.op = "remove", !.e = e])

Clear(l) ==
    /\ Running
    /\ Commit(clear(Cur, l), [NoArgs EXCEPT !.op = "clear", !.l = l])

Destroy(l) ==
    /\ Running
    /\ Commit(destroy(Cur, l), [NoArgs EXCEPT !.op = "destroy", !.l = l])

Swap(l, other) ==
    /\ Running
    /\ Commit(swap(Cur, l, other), [NoArgs EXCEPT !.op = "swap", !.l = l, !.other = other])

Merge(l, other) ==
    /\ Running
    /\ l # other
    /\ Commit(merge(Cur, l, other),
              [NoArgs EXCEPT !.op = "merge", !.l = l, !.other = other])

SpliceList(l, pos, other) ==
    /\ Running
    /\ l # other
    /\ pos \in Iter(Cur, l)
    /\ Commit(splice_list(Cur, l, pos, other),
              [NoArgs EXCEPT !.op = "splice_list", !.l = l, !.pos = pos, !.other = other])

SpliceOne(l, pos, other, it) ==
    /\ Running
    /\ pos \in Iter(Cur, l)
    /\ it \in Iter(Cur, other)
    /\ it = Null \/ pos # it
    /\ Commit(splice_one(Cur, l, pos, other, it),
              [NoArgs EXCEPT !.op = "splice_one", !.l = l, !.pos = pos,
                             !.other = other, !.first = it])

SpliceRange(l, pos, other, first, last) ==
    /\ Running
    /\ l # other
    /\ pos \in Iter(Cur, l)
    /\ first \in Iter(Cur, other)
    /\ last \in reach(Cur, first, {}) \cup {end}
    /\ Commit(splice_range(Cur, l, pos, other, first, last),
              [NoArgs EXCEPT !.op = "splice_range", !.l = l, !.pos = pos,
                             !.other = other, !.first = first, !.last = last])

RemoveIf(l, P) ==
    /\ Running
    /\ Commit(remove_if(Cur, l, P), [NoArgs EXCEPT !.op = "remove_if", !.l = l, !.P = P])

Unique(l, data) ==
    /\ Running
    /\ Commit(unique(Cur, l, data), [NoArgs EXCEPT !.op = "unique", !.l = l, !.data = data])

Sort(l) ==
    /\ Running
    /\ Commit(sort(Cur, l), [NoArgs EXCEPT !.op = "sort", !.l = l])

Next ==
    \/ \E l \in Lists : Front(l)
    \/ \E l \in Lists : Back(l)
    \/ \E l \in Lists, e \in Elem : PushFront(l, e)
    \/ \E l \in Lists, e \in Elem : PushBack(l, e)
    \/ \E l \in Lists, pos \in Ptr, e \in Elem : Insert(l, pos, e)
    \/ \E l \in Lists : PopFront(l)
    \/ \E l \in Lists : PopBack(l)
    \/ \E l \in Lists, pos \in Ptr : Erase(l, pos)
    \/ \E e \in Elem : Remove(e)
    \/ \E l \in Lists : Clear(l)
    \/ \E l \in Lists : Destroy(l)
    \/ \E l \in Lists, other \in Lists : Swap(l, other)
    \/ \E l \in Lists, other \in Lists : Merge(l, other)
    \/ \E l \in Lists, pos \in Ptr, other \in Lists : SpliceList(l, pos, other)
    \/ \E l \in Lists, pos \in Ptr, other \in Lists, it \in Ptr :
          SpliceOne(l, pos, other, it)
    \/ \E l \in Lists, pos \in Ptr, other \in Lists, first \in Ptr, last \in Ptr :
          SpliceRange(l, pos, other, first, last)
    \/ \E l \in Lists, P \in SUBSET Elem : RemoveIf(l, P)
    \/ \E l \in Lists, data \in [Elem -> Data] : Unique(l, data)
    \/ \E l \in Lists : Sort(l)

Spec == Init /\ [][Next]_vars

(***************************************************************************)
(* One list used as a double-ended queue: push_front, push_back, pop_front *)
(* and pop_back on list 1, each push of an element that is in no list and  *)
(* whose hook is unlinked, beside a reference sequence ref driven by the   *)
(* same calls.                                                             *)
(***************************************************************************)

Pushable(e) == e \notin Range(ref) /\ ~is_linked(Cur, e)

DequePushFront(e) ==
    /\ Running
    /\ Pushable(e)
    /\ StepWithin(push_front(Cur, 1, e),
                  [NoArgs EXCEPT !.op = "push_front", !.l = 1, !.e = e], MaxDequeCalls)
    /\ ref' = <<e>> \o ref

DequePushBack(e) ==
    /\ Running
    /\ Pushable(e)
    /\ StepWithin(push_back(Cur, 1, e),
                  [NoArgs EXCEPT !.op = "push_back", !.l = 1, !.e = e], MaxDequeCalls)
    /\ ref' = Append(ref, e)

DequePopFront ==
    /\ Running
    /\ StepWithin(pop_front(Cur, 1), [NoArgs EXCEPT !.op = "pop_front", !.l = 1],
                  MaxDequeCalls)
    /\ ref' = IF Len(ref) = 0 THEN ref ELSE Tail(ref)

DequePopBack ==
    /\ Running
    /\ StepWithin(pop_back(Cur, 1), [NoArgs EXCEPT !.op = "pop_back", !.l = 1],
                  MaxDequeCalls)
    /\ ref' = IF Len(ref) = 0 THEN ref ELSE SubSeq(ref, 1, Len(ref) - 1)

NextDeque ==
    \/ \E e \in Elem : DequePushFront(e)
    \/ \E e \in Elem : DequePushBack(e)
    \/ DequePopFront
    \/ DequePopBack

SpecDeque == Init /\ [][NextDeque]_vars

(***************************************************************************)
(* A caller that fills list 1 with push_back, of elements that are in no   *)
(* list and whose hooks are unlinked, and takes an element out again only  *)
(* when it is the last one left: ref is the run e1..en of the elements     *)
(* pushed since the list was last empty.                                   *)
(***************************************************************************)

RoundTripPushBack(e) ==
    /\ Running
    /\ Pushable(e)
    /\ StepWithin(push_back(Cur, 1, e),
                  [NoArgs EXCEPT !.op = "push_back", !.l = 1, !.e = e], MaxRoundTripCalls)
    /\ ref' = Append(ref, e)

RoundTripPopFront ==
    /\ Running
    /\ Len(ref) = 1
    /\ StepWithin(pop_front(Cur, 1), [NoArgs EXCEPT !.op = "pop_front", !.l = 1],
                  MaxRoundTripCalls)
    /\ ref' = <<>>

RoundTripPopBack ==
    /\ Running
    /\ Len(ref) = 1
    /\ StepWithin(pop_back(Cur, 1), [NoArgs EXCEPT !.op = "pop_back", !.l = 1],
                  MaxRoundTripCalls)
    /\ ref' = <<>>

NextRoundTrip ==
    \/ \E e \in Elem : RoundTripPushBack(e)
    \/ RoundTripPopFront
    \/ RoundTripPopBack

SpecRoundTrip == Init /\ [][NextRoundTrip]_vars

(***************************************************************************)
(* A caller that fills the lists with push_back and empties them with      *)
(* pop_back, clear() and the loop                                          *)
(*   while (list.begin() != list.end()) list.erase(list.begin());          *)
(* It makes fewer kinds of calls than the caller of Spec, and more of them.*)
(***************************************************************************)

BackPushBack(l, e) ==
    /\ Running
    /\ StepWithin(push_back(Cur, l, e),
                  [NoArgs EXCEPT !.op = "push_back", !.l = l, !.e = e], MaxBackCalls)
    /\ UNCHANGED ref

BackPopBack(l) ==
    /\ Running
    /\ StepWithin(pop_back(Cur, l), [NoArgs EXCEPT !.op = "pop_back", !.l = l],
                  MaxBackCalls)
    /\ UNCHANGED ref

BackEraseBegin(l) ==
    /\ Running
    /\ begin(Cur, l) # end
    /\ StepWithin(erase(Cur, l, begin(Cur, l)),
                  [NoArgs EXCEPT !.op = "erase", !.l = l, !.pos = begin(Cur, l)],
                  MaxBackCalls)
    /\ UNCHANGED ref

BackClear(l) ==
    /\ Running
    /\ StepWithin(clear(Cur, l), [NoArgs EXCEPT !.op = "clear", !.l = l], MaxBackCalls)
    /\ UNCHANGED ref

NextBackOps ==
    \/ \E l \in Lists, e \in Elem : BackPushBack(l, e)
    \/ \E l \in Lists : BackPopBack(l)
    \/ \E l \in Lists : BackEraseBegin(l)
    \/ \E l \in Lists : BackClear(l)

SpecBackOps == Init /\ [][NextBackOps]_vars

(***************************************************************************)
(* What the claims speak of.                                               *)
(***************************************************************************)

\* C1: in every reachable state, for each list, m_size == 0 iff m_head is
\* null iff m_tail is null.
C1_EmptyIffNoHeadIffNoTail ==
    \A l \in Lists :
        /\ (m_size[l] = 0) <=> (m_head[l] = Null)
        /\ (m_head[l] = Null) <=> (m_tail[l] = Null)

\* C2: in every reachable state, for each list, following next from m_head
\* visits exactly m_size hooks, the last one is m_tail, and null follows;
\* and the same following prev from m_tail, ending at m_head.
C2_ChainMatchesCount ==
    \A l \in Lists :
        LET fw == Forward(Cur, l)
            bw == Backward(Cur, l)
        IN  /\ ReachesNull(fw)
            /\ Len(fw) = m_size[l]
            /\ Last(fw) = m_tail[l]
            /\ ReachesNull(bw)
            /\ Len(bw) = m_size[l]
            /\ Last(bw) = m_head[l]

\* C5: in every reachable state, no hook is in the chains of both lists and
\* no hook is met twice in one chain.
C5_NoSharedHookNoCycle == NoSharing(Cur)

\* C3: driven by the same pushes and pops as a reference double-ended
\* sequence, list 1 always has its length as size(), and while it is not
\* empty its first item as front() and its last item as back().
C3_DequeRefinement ==
    /\ size(Cur, 1) = Len(ref)
    /\ Len(ref) > 0 =>
          /\ front(Cur, 1) = [exc |-> "ok", value |-> Head(ref)]
          /\ back(Cur, 1) = [exc |-> "ok", value |-> Last(ref)]

Pushes == {"push_front", "push_back", "insert"}
Errors == {"AlreadyLinked", "EmptyContainer", "InvalidPosition"}

\* C4: a push_front, push_back or insert of an element that is a member of
\* a list of size >= 1 fails with AlreadyLinked and changes nothing.
C4_PushOfMemberFails ==
    (/\ call.op \in Pushes
     /\ \E a \in Lists : pre.m_size[a] >= 1 /\ call.e \in Members(pre, a))
    => (outcome = "AlreadyLinked" /\ Snapshot = pre)

\* C6: a call that ends with an error leaves every list's head, tail and
\* count and every hook as they were before the call (here: a call made on
\* well-formed lists).
C6_FailureAtomicity ==
    (outcome \in Errors /\ \A l \in Lists : WellFormed(pre, l)) => Snapshot = pre

\* C7: remove_if(p) on a well-formed list ends without error and leaves
\* exactly the elements p is false for, in their order, the count reduced
\* by the number removed and every removed element unlinked.
C7_RemoveIfFilters ==
    (call.op = "remove_if" /\ \A l \in Lists : WellFormed(pre, l))
    => LET l == call.l
           before == Forward(pre, l)
           gone == Range(before) \cap call.P
       IN  /\ outcome = "ok"
           /\ Forward(Cur, l) = Keep(before, Elem \ call.P)
           /\ m_size[l] = pre.m_size[l] - Cardinality(gone)
           /\ \A e \in gone : Unlinked(Cur, e)

\* C8: after clear() every element that was in the chain of the list is
\* unlinked, and the list is empty with size() 0 (here: a list whose hooks
\* were properly chained from head to tail before the call).
C8_ClearUnlinksAll ==
    (call.op = "clear" /\ outcome = "ok" /\ ProperChain(pre, call.l))
    => /\ \A e \in Range(Forward(pre, call.l)) : Unlinked(Cur, e)
       /\ empty(Cur, call.l)
       /\ size(Cur, call.l) = 0

\* C9: every call runs to completion, and clear() returns with size() 0.
C9_EveryCallReturns ==
    /\ outcome # "hang"
    /\ (call.op = "clear" /\ outcome = "ok") => size(Cur, call.l) = 0

\* C10: merge(src), splice(pos, src) and splice(pos, src, src.begin(),
\* src.end()) leave src with size() 0 and head and tail null, and dst with
\* the sum of the two sizes (here: called when no hook is in both chains and
\* no chain has a cycle).
C10_SourceEmptiedSizesSummed ==
    (/\ NoSharing(pre)
     /\ \/ call.op \in {"merge", "splice_list"}
        \/ /\ call.op = "splice_range"
           /\ call.first = begin(pre, call.other)
           /\ call.last = end)
    => /\ outcome = "ok"
       /\ m_size[call.other] = 0
       /\ m_head[call.other] = Null
       /\ m_tail[call.other] = Null
       /\ m_size[call.l] = pre.m_size[call.l] + pre.m_size[call.other]

\* C11: merge(other) on distinct lists that iterate as A and B leaves this
\* list iterating as A followed by B and other empty (size() 0, nothing to
\* iterate); when B is empty nothing changes (here: called when the lists
\* share no hook and each iterates over size() elements).
C11_MergeConcatenates ==
    (call.op = "merge" /\ Readable(pre))
    => LET A == Forward(pre, call.l)
           B == Forward(pre, call.other)
       IN  /\ outcome = "ok"
           /\ Forward(Cur, call.l) = A \o B
           /\ Forward(Cur, call.other) = <<>>
           /\ empty(Cur, call.other)
           /\ B = <<>> => Snapshot = pre

\* C12: splice(pos, other) on distinct lists, the destination iterating as
\* P followed by S with pos on the first element of S: afterwards the
\* destination iterates as P, other, S from m_head by next and as the
\* reverse from m_tail by prev, and other is empty (here: called when the
\* lists share no hook and each iterates over size() elements).
C12_SpliceListInsertsBeforePos ==
    (call.op = "splice_list" /\ Readable(pre))
    => LET P == Before(Forward(pre, call.l), call.pos)
           S == From(Forward(pre, call.l), call.pos)
           O == Forward(pre, call.other)
       IN  /\ outcome = "ok"
           /\ Forward(Cur, call.l) = P \o O \o S
           /\ Backward(Cur, call.l) = Reverse(P \o O \o S)
           /\ Forward(Cur, call.other) = <<>>
           /\ empty(Cur, call.other)

\* C13: splice(pos, other, it) on distinct lists with it on a member of
\* other takes the element out of other, whose other elements keep their
\* order, and puts it into this list right before pos; other's size() goes
\* down by 1, this list's up by 1, and both lists are well formed (here:
\* called when the lists share no hook, each iterates over size()
\* elements and other is well formed).
C13_SpliceOneMovesElement ==
    (/\ call.op = "splice_one"
     /\ call.l # call.other
     /\ Readable(pre)
     /\ WellFormed(pre, call.other)
     /\ call.first \in Range(Forward(pre, call.other)))
    => LET it == call.first
           P == Before(Forward(pre, call.l), call.pos)
           S == From(Forward(pre, call.l), call.pos)
       IN  /\ outcome = "ok"
           /\ Forward(Cur, call.other) = Keep(Forward(pre, call.other), Elem \ {it})
           /\ Forward(Cur, call.l) = P \o <<it>> \o S
           /\ m_size[call.other] = pre.m_size[call.other] - 1
           /\ m_size[call.l] = pre.m_size[call.l] + 1
           /\ WellFormed(Cur, call.l)
           /\ WellFormed(Cur, call.other)

\* C14: splice(pos, other, first, last) on distinct lists with [first, last)
\* a run of other takes the run out of other, whose other elements keep
\* their order, and puts it in order into this list right before pos; the
\* counts change by the length of the run, first = last changes nothing,
\* and both lists are well formed afterwards (here: called when the lists
\* share no hook, each iterates over size() elements and other is well
\* formed).
C14_SpliceRangeMovesRun ==
    (call.op = "splice_range" /\ Readable(pre) /\ WellFormed(pre, call.other))
    => LET R == Before(From(Forward(pre, call.other), call.first), call.last)
           P == Before(Forward(pre, call.l), call.pos)
           S == From(Forward(pre, call.l), call.pos)
       IN  /\ outcome = "ok"
           /\ call.first = call.last => Snapshot = pre
           /\ call.first # call.last =>
                 /\ Forward(Cur, call.other)
                       = Keep(Forward(pre, call.other), Elem \ Range(R))
                 /\ Forward(Cur, call.l) = P \o R \o S
                 /\ m_size[call.other] = pre.m_size[call.other] - Len(R)
                 /\ m_size[call.l] = pre.m_size[call.l] + Len(R)
                 /\ WellFormed(Cur, call.l)
                 /\ WellFormed(Cur, call.other)

\* C15: a call splice(pos, other) ends as the call splice(pos, other,
\* other.begin(), other.end()) made in its place would have: same outcome,
\* same hooks, heads, tails and counts (here: called when no hook is in
\* both chains and no chain has a cycle).
C15_WholeRangeSpliceIsSpliceList ==
    (call.op = "splice_list" /\ NoSharing(pre))
    => LET r == splice_range(Pre, call.l, call.pos, call.other,
                             begin(Pre, call.other), end)
       IN  /\ r.exc = outcome
           /\ outcome = "ok" => r = Cur

\* C16: erase(end()) and splice(pos, other, end()) end with the
\* InvalidPosition error whatever the state of the lists, and leave every
\* head, tail, count and hook as it was.
C16_EndPositionThrows ==
    (\/ call.op = "erase" /\ call.pos = end
     \/ call.op = "splice_one" /\ call.first = end)
    => (outcome = "InvalidPosition" /\ Snapshot = pre)

\* C16 witness: splice(pos, other, end()) has thrown with both lists
\* holding elements.
C16_SpliceEndThrown ==
    /\ call.op = "splice_one"
    /\ call.first = end
    /\ call.l # call.other
    /\ outcome = "InvalidPosition"
    /\ \A l \in Lists : m_size[l] > 0 /\ m_head[l] # Null

\* C17: unique() leaves the list iterating as it did with every run of
\* adjacent equal elements cut down to its first element; size() drops by
\* the number of elements erased, each of them is unlinked, and a list of
\* size() 0 or 1 is left unchanged (here: called when no hook is in both
\* chains and no chain has a cycle).
C17_UniqueCollapsesRuns ==
    (call.op = "unique" /\ NoSharing(pre))
    => LET l == call.l
           before == Forward(pre, l)
           after == Dedup(before, call.data)
           gone == Range(before) \ Range(after)
       IN  /\ outcome = "ok"
           /\ Forward(Cur, l) = after
           /\ m_size[l] = pre.m_size[l] - Cardinality(gone)
           /\ \A e \in gone : Unlinked(Cur, e)
           /\ pre.m_size[l] \in {0, 1} => Snapshot = pre

\* C18: sort() returns with the list in non-descending order of data,
\* elements of equal data in the order they had, the same elements, the
\* same count, and the list well formed, whatever the data of the elements
\* (here: called on well-formed lists).
C18_SortOrdersStably ==
    (call.op = "sort" /\ \A l \in Lists : WellFormed(pre, l))
    => LET before == Forward(pre, call.l)
           after == Forward(Cur, call.l)
       IN  /\ outcome = "ok"
           /\ \A data \in [Elem -> Data] :
                 /\ Sorted(after, data)
                 /\ \A d \in Data :
                       Keep(after, {e \in Elem : data[e] = d})
                         = Keep(before, {e \in Elem : data[e] = d})
           /\ Range(after) = Range(before)
           /\ m_size[call.l] = pre.m_size[call.l]
           /\ WellFormed(Cur, call.l)

Pops == {"pop_front", "pop_back"}

\* C19: on a list that starts empty and is driven by push_front, push_back,
\* pop_front and pop_back, size() starts at 0, goes up by 1 with every push
\* that succeeds, down by 1 with every pop made when size() is not 0, and
\* is left alone by every other call; empty() is size() = 0 throughout.
C19_SizeCountsPushesAndPops ==
    /\ empty(Cur, 1) <=> size(Cur, 1) = 0
    /\ ncalls = 0 => size(Cur, 1) = 0
    /\ (call.op \in Pushes /\ outcome = "ok") => size(Cur, 1) = pre.m_size[1] + 1
    /\ (call.op \in Pushes /\ outcome # "ok") => size(Cur, 1) = pre.m_size[1]
    /\ (call.op \in Pops /\ pre.m_size[1] # 0) => size(Cur, 1) = pre.m_size[1] - 1
    /\ (call.op \in Pops /\ pre.m_size[1] = 0) => size(Cur, 1) = 0

\* C20: after push_back of the distinct unlinked elements e1..en onto an
\* empty list, going from begin() by ++ to end() meets e1..en in that
\* order, and going from the last element by -- meets en..e1.
C20_PushBackRoundTrip ==
    ref # <<>> =>
        /\ Forward(Cur, 1) = ref
        /\ Backward(Cur, 1) = Reverse(ref)

\* q without its last element.
Front1(q) == SubSeq(q, 1, Len(q) - 1)

\* C21: pop_front() / pop_back() on a well-formed list of one element or
\* more takes out exactly the first / last element: its hook has prev and
\* next null afterwards, the other elements keep their order, m_head and
\* m_tail are the new first and last element (both null when none is
\* left), and the count is one less.
C21_PopRemovesEnd ==
    (call.op \in Pops /\ pre.m_size[call.l] >= 1 /\ \A l \in Lists : WellFormed(pre, l))
    => LET l == call.l
           before == Forward(pre, l)
           gone == IF call.op = "pop_front" THEN Head(before) ELSE Last(before)
           rest == IF call.op = "pop_front" THEN Tail(before) ELSE Front1(before)
       IN  /\ outcome = "ok"
           /\ Unlinked(Cur, gone)
           /\ Forward(Cur, l) = rest
           /\ Backward(Cur, l) = Reverse(rest)
           /\ m_head[l] = (IF rest = <<>> THEN Null ELSE Head(rest))
           /\ m_tail[l] = Last(rest)
           /\ m_size[l] = pre.m_size[l] - 1

\* C22: pop_front() and pop_back() on a list whose size() is 0 return
\* without error and leave every head, tail, count and hook as it was, and
\* so does remove(e) on an element whose prev and next are null.
C22_NothingToDoChangesNothing ==
    /\ (call.op \in Pops /\ pre.m_size[call.l] = 0)
          => (outcome = "ok" /\ Snapshot = pre)
    /\ (call.op = "remove" /\ Unlinked(pre, call.e))
          => (outcome = "ok" /\ Snapshot = pre)

\* C22 witness: a pop has returned from a list of size() 0 while the other
\* list holds an element.
C22_PoppedEmptyBesideFull ==
    /\ call.op \in Pops
    /\ pre.m_size[call.l] = 0
    /\ outcome = "ok"
    /\ \E o \in Lists \ {call.l} : m_size[o] > 0 /\ m_head[o] # Null

\* The element that follows pos in q, end() when none does.
After(q, pos) == IF Len(From(q, pos)) <= 1 THEN end ELSE From(q, pos)[2]

\* C23: erase(pos) with pos on an element the list iterates over takes out
\* exactly that element: its prev and next are null afterwards, the others
\* keep their order in both directions, m_head and m_tail are the first and
\* last of them, the count is one less, and the iterator returned is on the
\* element that followed, end() when none did (here: called when the lists
\* share no hook and each iterates over size() elements).
C23_EraseRemovesElement ==
    (/\ call.op = "erase"
     /\ Readable(pre)
     /\ call.pos \in Range(Forward(pre, call.l)))
    => LET l == call.l
           rest == Keep(Forward(pre, l), Elem \ {call.pos})
       IN  /\ outcome = "ok"
           /\ Unlinked(Cur, call.pos)
           /\ Forward(Cur, l) = rest
           /\ Backward(Cur, l) = Keep(Backward(pre, l), Elem \ {call.pos})
           /\ m_head[l] = (IF rest = <<>> THEN Null ELSE Head(rest))
           /\ m_tail[l] = Last(rest)
           /\ m_size[l] = pre.m_size[l] - 1
           /\ erase_result(Pre, call.pos) = After(Forward(pre, l), call.pos)

\* C24: insert(pos, e) of an element that is in no list and whose hook is
\* unlinked, into a list iterating as P followed by S with pos on the first
\* element of S, leaves the list iterating as P, e, S with the count one
\* more; with pos = begin() it ends as push_front(e) would, with
\* pos = end() as push_back(e) would (here: called when the lists share no
\* hook and each iterates over size() elements).
C24_InsertBeforePos ==
    (/\ call.op = "insert"
     /\ Readable(pre)
     /\ Unlinked(pre, call.e)
     /\ call.e \notin Hooks(pre, 1) \cup Hooks(pre, 2))
    => LET l == call.l
           P == Before(Forward(pre, l), call.pos)
           S == From(Forward(pre, l), call.pos)
       IN  /\ outcome = "ok"
           /\ Forward(Cur, l) = P \o <<call.e>> \o S
           /\ m_size[l] = pre.m_size[l] + 1
           /\ call.pos = begin(Pre, l) => Cur = push_front(Pre, l, call.e)
           /\ call.pos = end => Cur = push_back(Pre, l, call.e)

\* C25: front() and back() end with the EmptyContainer error exactly when
\* the count is 0, and otherwise return the element whose hook is m_head /
\* m_tail without error; either way nothing changes.
C25_FrontBackOrEmptyContainer ==
    (call.op \in {"front", "back"})
    => LET l == call.l
           got == IF call.op = "front" THEN front(Pre, l) ELSE back(Pre, l)
           at == IF call.op = "front" THEN pre.m_head[l] ELSE pre.m_tail[l]
       IN  /\ Snapshot = pre
           /\ outcome = got.exc
           /\ pre.m_size[l] = 0 => outcome = "EmptyContainer"
           /\ pre.m_size[l] # 0 => got = [exc |-> "ok", value |-> at]

\* C26: remove(e) on a hook whose prev and next are both null changes
\* nothing; otherwise the hook that was before e has the one that was after
\* e as its next, the hook that was after e has the one that was before as
\* its prev (for neighbours other than e itself), e's prev and next are
\* null, every other pointer and every head, tail and count is as it was;
\* and a second remove(e) changes nothing.
C26_RemoveUnlinksOnce ==
    (call.op = "remove")
    => LET e == call.e
           p == pre.prev[e]
           n == pre.next[e]
       IN  /\ outcome = "ok"
           /\ Unlinked(pre, e) => Snapshot = pre
           /\ Unlinked(Cur, e)
           /\ p \notin {Null, e} => next[p] = n
           /\ n \notin {Null, e} => prev[n] = p
           /\ \A x \in Elem \ {e} : /\ x # p => next[x] = pre.next[x]
                                    /\ x # n => prev[x] = pre.prev[x]
           /\ m_size = pre.m_size
           /\ m_head = pre.m_head
           /\ m_tail = pre.m_tail
           /\ remove(Cur, e) = Cur

\* C26 witness: remove(e) has unlinked an element that stood between two
\* others.
C26_RemovedBetweenTwo ==
    /\ call.op = "remove"
    /\ outcome = "ok"
    /\ pre.prev[call.e] \notin {Null, call.e}
    /\ pre.next[call.e] \notin {Null, call.e, pre.prev[call.e]}
    /\ next[pre.prev[call.e]] = pre.next[call.e]
    /\ Unlinked(Cur, call.e)

\* C27: a.swap(b) exchanges m_head, m_tail and m_size of the two lists and
\* writes no hook: a iterates afterwards as b did and b as a did, in both
\* directions, and swapping again gives back the state before the call.
C27_SwapExchangesLists ==
    (call.op = "swap")
    => LET a == call.l
           b == call.other
       IN  /\ outcome = "ok"
           /\ m_head[a] = pre.m_head[b] /\ m_head[b] = pre.m_head[a]
           /\ m_tail[a] = pre.m_tail[b] /\ m_tail[b] = pre.m_tail[a]
           /\ m_size[a] = pre.m_size[b] /\ m_size[b] = pre.m_size[a]
           /\ prev = pre.prev
           /\ next = pre.next
           /\ Forward(Cur, a) = Forward(pre, b) /\ Forward(Cur, b) = Forward(pre, a)
           /\ Backward(Cur, a) = Backward(pre, b) /\ Backward(Cur, b) = Backward(pre, a)
           /\ swap(Cur, a, b) = Pre

\* C27 witness: two different lists of different sizes, one of them with
\* two elements or more, have been swapped.
C27_SwappedUnequalLists ==
    /\ call.op = "swap"
    /\ call.l # call.other
    /\ outcome = "ok"
    /\ WellFormed(pre, call.l) /\ WellFormed(pre, call.other)
    /\ pre.m_size[call.l] >= 2
    /\ pre.m_size[call.other] = 1
    /\ Forward(Cur, call.other) = Forward(pre, call.l)

\* C28 (as stated): is_linked() is true exactly when prev and next are both
\* non-null: push_front, push_back and insert end with AlreadyLinked, and
\* remove changes something, exactly for a hook with both pointers set.
C28_IsLinkedBothPointers ==
    LET both == pre.prev[call.e] # Null /\ pre.next[call.e] # Null
    IN  /\ call.op \in Pushes => (outcome = "AlreadyLinked" <=> both)
        /\ call.op = "remove" => (Snapshot # pre <=> both)

\* C28 (amended): is_linked() is true exactly when prev or next is
\* non-null: push_front, push_back and insert end with AlreadyLinked, and
\* remove changes something, exactly for a hook with a pointer set.
C28_IsLinkedEitherPointer ==
    LET either == pre.prev[call.e] # Null \/ pre.next[call.e] # Null
    IN  /\ call.op \in Pushes => (outcome = "AlreadyLinked" <=> either)
        /\ call.op = "remove" => (Snapshot # pre <=> either)

\* C28 witness: a push of the first of several elements of a list, whose
\* prev is null and next is not, has ended with AlreadyLinked.
C28_HeadElementRefused ==
    /\ call.op \in Pushes
    /\ outcome = "AlreadyLinked"
    /\ pre.prev[call.e] = Null
    /\ pre.next[call.e] # Null
    /\ \E l \in Lists : WellFormed(pre, l) /\ pre.m_head[l] = call.e

\* C29: in every state, each hook is either a member of exactly one list
\* (met from its m_head by next and from its m_tail by prev), or it is a
\* member of none, and then its prev and next are null and no m_head, no
\* m_tail and no hook's prev or next points at it.
C29_MemberOfOneListOrUnlinked ==
    \A e \in Elem :
        LET of == {l \in Lists : e \in Members(Cur, l)}
        IN  \/ Cardinality(of) = 1
            \/ /\ of = {}
               /\ Unlinked(Cur, e)
               /\ \A l \in Lists : m_head[l] # e /\ m_tail[l] # e
               /\ \A x \in Elem : prev[x] # e /\ next[x] # e

\* Iterator it after k applications of operator++.
RECURSIVE inc_times(_, _, _)
inc_times(s, it, k) == IF k = 0 THEN it ELSE inc_times(s, inc(s, it), k - 1)

\* C30: on a list driven by push_front, push_back, pop_front and pop_back
\* whose size() is n, the iterator begin() advanced k times by ++ is on the
\* (k+1)-th element for k < n and is end() for k = n, and begin() is end()
\* exactly when the list is empty.
C30_CursorTraversal ==
    LET n == size(Cur, 1)
    IN  /\ \A k \in 0..NumElems :
              (k < n /\ k < Len(ref)) => inc_times(Cur, begin(Cur, 1), k) = ref[k + 1]
        /\ n \in 0..NumElems => inc_times(Cur, begin(Cur, 1), n) = end
        /\ (begin(Cur, 1) = end) <=> empty(Cur, 1)

\* C34: a call on list A that names neither the other list B nor a member
\* of B (as the element pushed or as the position) leaves m_head, m_tail
\* and m_size of B and the prev and next of every member of B as they were
\* (here: for B a well-formed list before the call, and no hook a member
\* of both lists).
C34_OtherListUntouched ==
    \A B \in Lists :
        (/\ call.l \in Lists \ {B}
         /\ call.other = 0
         /\ WellFormed(pre, B)
         /\ Members(pre, call.l) \cap Members(pre, B) = {}
         /\ call.e \notin Members(pre, B)
         /\ call.pos \notin Members(pre, B))
        => /\ m_head[B] = pre.m_head[B]
           /\ m_tail[B] = pre.m_tail[B]
           /\ m_size[B] = pre.m_size[B]
           /\ \A x \in Members(pre, B) :
                  prev[x] = pre.prev[x] /\ next[x] = pre.next[x]

\* C35: after remove(e) on a member e of a well-formed list L, neither
\* m_head nor m_tail of L nor the prev or next of another member points at
\* e, and L is well-formed: going from m_head by next meets m_size hooks,
\* the members other than e in their order, and ends on m_tail.
C35_RemoveKeepsListWellFormed ==
    \A L \in Lists :
        (/\ call.op = "remove"
         /\ \A l \in Lists : WellFormed(pre, l)
         /\ call.e \in Members(pre, L))
        => /\ m_head[L] # call.e
           /\ m_tail[L] # call.e
           /\ \A x \in Members(pre, L) \ {call.e} :
                  prev[x] # call.e /\ next[x] # call.e
           /\ WellFormed(Cur, L)
           /\ Forward(Cur, L) = Keep(Forward(pre, L), Elem \ {call.e})

\* C36: for two different lists a and b in any state, a.merge(b) and
\* a.splice(a.end(), b) end alike and leave the same hooks, heads, tails
\* and counts.
C36_MergeIsSpliceAtEnd ==
    /\ call.op = "merge"
          => LET r == splice_list(Pre, call.l, end, call.other)
             IN  r.exc = outcome /\ (outcome = "ok" => r = Cur)
    /\ (call.op = "splice_list" /\ call.pos = end)
          => LET r == merge(Pre, call.l, call.other)
             IN  r.exc = outcome /\ (outcome = "ok" => r = Cur)

\* C36 witness: a list of one element or more has been merged into another
\* list of one element or more.
C36_MergedTwoFilledLists ==
    /\ call.op = "merge"
    /\ outcome = "ok"
    /\ WellFormed(pre, call.l) /\ WellFormed(pre, call.other)
    /\ pre.m_size[call.l] >= 1
    /\ pre.m_size[call.other] >= 1
    /\ Forward(Cur, call.l) = Forward(pre, call.l) \o Forward(pre, call.other)

ListN_Cur == [lst EXCEPT !.exc = "ok", !.ret = Null]

\* new Node(value): data(value), prev(nullptr), next(nullptr).  No code
\* compares addresses, so the lowest free address stands for any.
ListN_new(s) == CHOOSE n \in NodeId \ s.live : \A o \in NodeId \ s.live : n <= o

ListN_Node(s, node, value) ==
    [s EXCEPT !.live = @ \cup {node}, !.data[node] = value,
              !.prev[node] = Null, !.next[node] = Null]

\* delete node: the address is free again and what it held is gone.
ListN_delete(s, node) ==
    [s EXCEPT !.live = @ \ {node}, !.data[node] = 0,
              !.prev[node] = Null, !.next[node] = Null]

\* ListN::empty / size / begin / end
ListN_empty(s) == s.m_size = 0
ListN_size(s) == s.m_size
ListN_begin(s) == s.m_head
ListN_end == Null

\* ListN::iterator::operator++
ListN_inc(s, it) == IF it = Null THEN [exc |-> "crash", it |-> Null]
                    ELSE [exc |-> "ok", it |-> s.next[it]]

\* ListN::iterator::operator--
ListN_dec(s, it) ==
    IF it = Null THEN [exc |-> "out_of_range", it |-> it]
    ELSE IF s.prev[it] = Null THEN [exc |-> "out_of_range", it |-> it]
    ELSE [exc |-> "ok", it |-> s.prev[it]]

\* ListN::front / back: exc is the error thrown, value the data returned.
ListN_front(s) ==
    IF ListN_empty(s) THEN [exc |-> "out_of_range", value |-> 0]
    ELSE IF s.m_head = Null THEN [exc |-> "crash", value |-> 0]
    ELSE [exc |-> "ok", value |-> s.data[s.m_head]]

ListN_back(s) ==
    IF ListN_empty(s) THEN [exc |-> "out_of_range", value |-> 0]
    ELSE IF s.m_tail = Null THEN [exc |-> "crash", value |-> 0]
    ELSE [exc |-> "ok", value |-> s.data[s.m_tail]]

\* ListN::push_front
ListN_push_front(s, value) ==
    LET node == ListN_new(s)
        s0 == ListN_Node(s, node, value)
        s1 == [s0 EXCEPT !.next[node] = s0.m_head]
        s2 == [s1 EXCEPT !.prev[node] = Null]
        s3 == IF s2.m_head # Null
              THEN [s2 EXCEPT !.prev[s2.m_head] = node]
              ELSE [s2 EXCEPT !.m_tail = node]
        s4 == [s3 EXCEPT !.m_head = node]
    IN  [s4 EXCEPT !.m_size = @ + 1]

\* ListN::push_back
ListN_push_back(s, value) ==
    LET node == ListN_new(s)
        s0 == ListN_Node(s, node, value)
        s1 == [s0 EXCEPT !.prev[node] = s0.m_tail]
        s2 == [s1 EXCEPT !.next[node] = Null]
        s3 == IF s2.m_tail # Null
              THEN [s2 EXCEPT !.next[s2.m_tail] = node]
              ELSE [s2 EXCEPT !.m_head = node]
        s4 == [s3 EXCEPT !.m_tail = node]
    IN  [s4 EXCEPT !.m_size = @ + 1]

\* ListN::pop_front
ListN_pop_front(s) ==
    IF ListN_empty(s) THEN s
    ELSE IF s.m_head = Null THEN Crash(s)
    ELSE LET old_head == s.m_head
             s1 == [s EXCEPT !.m_head = s.next[s.m_head]]
             s2 == IF s1.m_head # Null
                   THEN [s1 EXCEPT !.prev[s1.m_head] = Null]
                   ELSE [s1 EXCEPT !.m_tail = Null]
             s3 == ListN_delete(s2, old_head)
         IN  [s3 EXCEPT !.m_size = @ - 1]

\* A variant of ListN::pop_back that leaves m_head alone when the last node
\* goes.
ListN_pop_back_stale_head(s) ==
    IF ListN_empty(s) THEN s
    ELSE IF s.m_tail = Null THEN Crash(s)
    ELSE LET old_tail == s.m_tail
             s1 == [s EXCEPT !.m_tail = s.prev[s.m_tail]]
             s2 == IF s1.m_tail # Null
                   THEN [s1 EXCEPT !.next[s1.m_tail] = Null]
                   ELSE s1
             s3 == ListN_delete(s2, old_tail)
         IN  [s3 EXCEPT !.m_size = @ - 1]

\* ListN::pop_back
ListN_pop_back(s) ==
    IF ListN_empty(s) THEN s
    ELSE IF s.m_tail = Null THEN Crash(s)
    ELSE LET old_tail == s.m_tail
             s1 == [s EXCEPT !.m_tail = s.prev[s.m_tail]]
             s2 == IF s1.m_tail # Null
                   THEN [s1 EXCEPT !.next[s1.m_tail] = Null]
                   ELSE [s1 EXCEPT !.m_head = Null]
             s3 == ListN_delete(s2, old_tail)
         IN  [s3 EXCEPT !.m_size = @ - 1]

\* ListN::delete_all: while (!empty()) pop_back();
RECURSIVE ListN_delete_all(_)
ListN_delete_all(s) ==
    IF ListN_empty(s) \/ s.exc # "ok" THEN s ELSE ListN_delete_all(ListN_pop_back(s))

\* ListN::clear
ListN_clear(s) ==
    LET s1 == ListN_delete_all(s)
    IN  IF s1.exc # "ok" THEN s1
        ELSE [s1 EXCEPT !.m_head = Null, !.m_tail = Null, !.m_size = 0]

\* ListN::insert
ListN_insert(s, pos, value) ==
    IF pos = ListN_begin(s)
    THEN LET s1 == ListN_push_front(s, value)
         IN  [s1 EXCEPT !.ret = ListN_begin(s1)]
    ELSE IF pos = ListN_end
    THEN LET s1 == ListN_push_back(s, value)
             it == ListN_dec(s1, ListN_end)
         IN  IF it.exc # "ok" THEN Throw(s1, it.exc) ELSE [s1 EXCEPT !.ret = it.it]
    ELSE IF s.prev[pos] = Null THEN Crash(s)
    ELSE LET current == pos
             newNode == ListN_new(s)
             s0 == ListN_Node(s, newNode, value)
             s1 == [s0 EXCEPT !.prev[newNode] = s0.prev[current]]
             s2 == [s1 EXCEPT !.next[newNode] = current]
             s3 == [s2 EXCEPT !.next[s2.prev[current]] = newNode]
             s4 == [s3 EXCEPT !.prev[current] = newNode]
             s5 == [s4 EXCEPT !.m_size = @ + 1]
         IN  [s5 EXCEPT !.ret = newNode]

\* ListN::insert_range over the values vals: pos = insert(pos, *first);
\* ++pos; for each of them.
RECURSIVE ListN_insert_range(_, _, _)
ListN_insert_range(s, pos, vals) ==
    IF vals = <<>> THEN [s EXCEPT !.ret = Null]
    ELSE LET s1 == ListN_insert(s, pos, Head(vals))
         IN  IF s1.exc # "ok" THEN s1
             ELSE LET it == ListN_inc(s1, s1.ret)
                  IN  IF it.exc # "ok" THEN Throw(s1, it.exc)
                      ELSE ListN_insert_range(s1, it.it, Tail(vals))

\* ListN::erase
ListN_erase(s, pos) ==
    IF pos = ListN_end THEN Throw(s, "out_of_range")
    ELSE LET target == pos
             s0 == [s EXCEPT !.ret = s.next[target]]
             s1 == IF s0.prev[target] # Null
                   THEN [s0 EXCEPT !.next[s0.prev[target]] = s0.next[target]]
                   ELSE [s0 EXCEPT !.m_head = s0.next[target]]
             s2 == IF s1.next[target] # Null
                   THEN [s1 EXCEPT !.prev[s1.next[target]] = s1.prev[target]]
                   ELSE [s1 EXCEPT !.m_tail = s1.prev[target]]
             s3 == ListN_delete(s2, target)
         IN  [s3 EXCEPT !.m_size = @ - 1]

\* ListN::resize
RECURSIVE ListN_resize(_, _, _)
ListN_resize(s, new_size, value) ==
    IF s.exc # "ok" THEN s
    ELSE IF new_size < s.m_size THEN ListN_resize(ListN_pop_back(s), new_size, value)
    ELSE IF new_size > s.m_size THEN ListN_resize(ListN_push_back(s, value), new_size, value)
    ELSE s

\* The nodes of the list from m_head by next and from m_tail by prev, and
\* the values along the first.
ListN_Forward(s) == path(s.next, s.m_head, MaxNodes + 1)
ListN_Backward(s) == path(s.prev, s.m_tail, MaxNodes + 1)
ListN_Values(s) == [i \in 1..Len(ListN_Forward(s)) |-> s.data[ListN_Forward(s)[i]]]

\* The iterators of the list: on one of its nodes, or end().
ListN_Iter(s) == Range(ListN_Forward(s)) \cup {ListN_end}

\* The number of nodes before the one pos is on (all of them for end()).
ListN_Index(s, pos) == Len(Before(ListN_Forward(s), pos))

ListN_NoArgs == [op |-> "none", pos |-> Null, value |-> 0, n |-> 0, vals |-> <<>>]

\* The call c ends in state r of the list; q is the reference sequence
\* after the same call.
ListN_Step(r, c, q) ==
    /\ ncalls < MaxListCalls
    /\ lst' = IF r.exc = "crash" THEN lst ELSE r
    /\ outcome' = r.exc
    /\ call' = c
    /\ pre' = lst
    /\ ncalls' = ncalls + 1
    /\ ref' = q
    /\ UNCHANGED <<prev, next, m_head, m_tail, m_size, vec>>

\* Room for k more nodes (new does not fail).
ListN_Room(k) == Cardinality(lst.live) + k <= MaxNodes

ListNFront ==
    /\ Running
    /\ ListN_Step([ListN_Cur EXCEPT !.exc = ListN_front(ListN_Cur).exc],
               [ListN_NoArgs EXCEPT !.op = "front"], ref)

ListNBack ==
    /\ Running
    /\ ListN_Step([ListN_Cur EXCEPT !.exc = ListN_back(ListN_Cur).exc],
               [ListN_NoArgs EXCEPT !.op = "back"], ref)

ListNPushFront(value) ==
    /\ Running
    /\ ListN_Room(1)
    /\ ListN_Step(ListN_push_front(ListN_Cur, value),
                  [ListN_NoArgs EXCEPT !.op = "push_front", !.value = value],
                  <<value>> \o ref)

ListNPushBack(value) ==
    /\ Running
    /\ ListN_Room(1)
    /\ ListN_Step(ListN_push_back(ListN_Cur, value),
                  [ListN_NoArgs EXCEPT !.op = "push_back", !.value = value],
                  Append(ref, value))

ListNPopFront ==
    /\ Running
    /\ ListN_Step(ListN_pop_front(ListN_Cur), [ListN_NoArgs EXCEPT !.op = "pop_front"],
               IF ref = <<>> THEN ref ELSE Tail(ref))

ListNPopBack ==
    /\ Running
    /\ ListN_Step(ListN_pop_back(ListN_Cur), [ListN_NoArgs EXCEPT !.op = "pop_back"],
               IF ref = <<>> THEN ref ELSE Front1(ref))

ListNErase(pos) ==
    /\ Running
    /\ pos \in ListN_Iter(lst)
    /\ ListN_Step(ListN_erase(ListN_Cur, pos),
                  [ListN_NoArgs EXCEPT !.op = "erase", !.pos = pos],
                  LET i == ListN_Index(lst, pos) + 1
                  IN  IF pos = ListN_end THEN ref
                      ELSE SubSeq(ref, 1, i - 1) \o SubSeq(ref, i + 1, Len(ref)))

ListNResize(n, value) ==
    /\ Running
    /\ n <= MaxNodes
    /\ ListN_Step(ListN_resize(ListN_Cur, n, value),
                  [ListN_NoArgs EXCEPT !.op = "resize", !.n = n, !.value = value],
                  IF n <= Len(ref) THEN SubSeq(ref, 1, n)
                  ELSE ref \o [i \in 1..(n - Len(ref)) |-> value])

ListNClear ==
    /\ Running
    /\ ListN_Step(ListN_clear(ListN_Cur), [ListN_NoArgs EXCEPT !.op = "clear"], <<>>)

NextListN ==
    \/ ListNFront
    \/ ListNBack
    \/ \E value \in Data : ListNPushFront(value)
    \/ \E value \in Data : ListNPushBack(value)
    \/ ListNPopFront
    \/ ListNPopBack
    \/ \E pos \in 0..MaxNodes : ListNErase(pos)
    \/ \E n \in 0..MaxNodes, value \in Data : ListNResize(n, value)
    \/ ListNClear

SpecListN == Init /\ [][NextListN]_vars

\* The reference sequence q with value put before its (i+1)-th item.
InsertAt(q, i, vals) == SubSeq(q, 1, i) \o vals \o SubSeq(q, i + 1, Len(q))

ListNInsert(pos, value) ==
    /\ Running
    /\ ListN_Room(1)
    /\ pos \in ListN_Iter(lst)
    /\ ListN_Step(ListN_insert(ListN_Cur, pos, value),
                  [ListN_NoArgs EXCEPT !.op = "insert", !.pos = pos, !.value = value],
                  InsertAt(ref, ListN_Index(lst, pos), <<value>>))

ListNInsertRange(pos, vals) ==
    /\ Running
    /\ ListN_Room(Len(vals))
    /\ pos \in ListN_Iter(lst)
    /\ ListN_Step(ListN_insert_range(ListN_Cur, pos, vals),
                  [ListN_NoArgs EXCEPT !.op = "insert_range", !.pos = pos, !.vals = vals],
                  InsertAt(ref, ListN_Index(lst, pos), vals))

ListNInsertPopBack ==
    /\ Running
    /\ ListN_Step(ListN_pop_back(ListN_Cur), [ListN_NoArgs EXCEPT !.op = "pop_back"],
               IF ref = <<>> THEN ref ELSE Front1(ref))

NextListNInsert ==
    \/ \E pos \in 0..MaxNodes, value \in Data : ListNInsert(pos, value)
    \/ \E pos \in 0..MaxNodes, vals \in [1..2 -> Data] : ListNInsertRange(pos, vals)
    \/ ListNInsertPopBack

SpecListNInsert == Init /\ [][NextListNInsert]_vars

\* The state of the list apart from how the last call ended.
ListN_State(s) == [s EXCEPT !.exc = "ok", !.ret = Null]

\* C31: ListN::insert(pos, value), for pos any iterator of the list, ends
\* without error, leaves the values of the list as they were with value put
\* just before the position of pos and size() one more, and returns an
\* iterator on the new node; insert_range(pos, first, last) ends without
\* error and leaves the values with those of the range, in order, put
\* before the position of pos.
C31_ListNInsertBeforePos ==
    /\ call.op = "insert"
          => LET i == ListN_Index(pre, call.pos)
             IN  /\ outcome = "ok"
                 /\ ListN_Values(lst) = InsertAt(ListN_Values(pre), i, <<call.value>>)
                 /\ ListN_size(lst) = ListN_size(pre) + 1
                 /\ lst.ret = ListN_Forward(lst)[i + 1]
    /\ call.op = "insert_range"
          => LET i == ListN_Index(pre, call.pos)
             IN  /\ outcome = "ok"
                 /\ ListN_Values(lst) = InsertAt(ListN_Values(pre), i, call.vals)
                 /\ ListN_size(lst) = ListN_size(pre) + Len(call.vals)

\* C32: on a ListN driven by push_front, push_back, pop_front, pop_back,
\* erase, resize and clear, with a reference sequence driven by the same
\* calls: size() is the length of the sequence and the values of the list
\* are its items; front() and back() return its first and last item (and
\* throw out_of_range when it is empty); m_size = 0, m_head null and
\* m_tail null go together; the nodes allocated are those of the list; and
\* a pop on an empty list changes nothing.
C32_ListNRefinesSequence ==
    /\ ListN_size(lst) = Len(ref)
    /\ ListN_Values(lst) = ref
    /\ ListN_Backward(lst) = Reverse(ListN_Forward(lst))
    /\ ListN_front(lst) = (IF ref = <<>> THEN [exc |-> "out_of_range", value |-> 0]
                           ELSE [exc |-> "ok", value |-> Head(ref)])
    /\ ListN_back(lst) = (IF ref = <<>> THEN [exc |-> "out_of_range", value |-> 0]
                          ELSE [exc |-> "ok", value |-> Last(ref)])
    /\ (lst.m_size = 0) <=> (lst.m_head = Null)
    /\ (lst.m_size = 0) <=> (lst.m_tail = Null)
    /\ lst.live = Range(ListN_Forward(lst))
    /\ (call.op \in Pops /\ pre.m_size = 0)
          => (outcome = "ok" /\ ListN_State(lst) = ListN_State(pre))
    /\ (call.op \in {"front", "back"}) => ListN_State(lst) = ListN_State(pre)

\* C32 witness: a list of three nodes has been cut to one by resize, and
\* its front() is not the value that was its back().
C32_ResizedThreeToOne ==
    /\ call.op = "resize"
    /\ pre.m_size = 3
    /\ lst.m_size = 1
    /\ ref = <<pre.data[pre.m_head]>>
    /\ pre.data[pre.m_tail] # pre.data[pre.m_head]

(***************************************************************************)
(* VectorN<T> of src/containers/include/VectorN.h, for T = int: m_size,    *)
(* m_capacity and the array m_data of m_capacity elements (the sequence    *)
(* m_data here, TLA+ index i + 1 for C++ index i).  `new value_type[n]`    *)
(* leaves its elements uninitialized: they hold Indeterminate until they   *)
(* are assigned.  An iterator is the index pos - begin().                  *)
(***************************************************************************)

\* The content of an element of `new int[n]` that was never assigned.
Indeterminate == -1

\* new value_type[n]
VectorN_new(n) == [i \in 1..n |-> Indeterminate]

\* VectorN::size / capacity / empty
VectorN_size(x) == x.m_size
VectorN_capacity(x) == x.m_capacity
VectorN_empty(x) == x.m_size = 0

\* The elements stored: m_data[0] .. m_data[m_size - 1].
VectorN_Elements(x) == [i \in 1..x.m_size |-> x.m_data[i]]

\* for (i = hi; i > lo; --i) m_data[i] = std::move(m_data[i - 1]);
RECURSIVE VectorN_shift_up(_, _, _)
VectorN_shift_up(x, hi, lo) ==
    IF hi <= lo THEN x
    ELSE IF hi + 1 > Len(x.m_data) THEN Crash(x)
    ELSE VectorN_shift_up([x EXCEPT !.m_data[hi + 1] = x.m_data[hi]], hi - 1, lo)

\* for (i = lo; i < m_size - 1; ++i) m_data[i] = std::move(m_data[i + 1]);
RECURSIVE VectorN_shift_down(_, _)
VectorN_shift_down(x, lo) ==
    IF lo >= x.m_size - 1 THEN x
    ELSE IF lo + 2 > Len(x.m_data) THEN Crash(x)
    ELSE VectorN_shift_down([x EXCEPT !.m_data[lo + 1] = x.m_data[lo + 2]], lo + 1)

\* m_data[i] = val
VectorN_store(x, i, val) ==
    IF i + 1 > Len(x.m_data) THEN Crash(x) ELSE [x EXCEPT !.m_data[i + 1] = val]

\* A variant of reserve that allocates and copies even when the capacity
\* asked for is smaller than the one at hand.
VectorN_reserve_exact(x, new_cap) ==
    IF new_cap = x.m_capacity THEN x
    ELSE IF x.m_size > Len(x.m_data) THEN Crash(x)
    ELSE LET new_data == [i \in 1..new_cap |->
                             IF i <= x.m_size THEN x.m_data[i] ELSE Indeterminate]
         IN  [x EXCEPT !.m_data = new_data, !.m_capacity = new_cap]

\* VectorN::reserve
VectorN_reserve(x, new_cap) ==
    IF new_cap <= x.m_capacity THEN x
    ELSE IF x.m_size > Len(x.m_data) THEN Crash(x)
    ELSE LET new_data == [i \in 1..new_cap |->
                             IF i <= x.m_size THEN x.m_data[i] ELSE Indeterminate]
         IN  [x EXCEPT !.m_data = new_data, !.m_capacity = new_cap]

\* if (m_size >= m_capacity) reserve(m_capacity == 0 ? 1 : m_capacity * 2);
VectorN_grow(x) ==
    IF x.m_size >= x.m_capacity
    THEN VectorN_reserve(x, IF x.m_capacity = 0 THEN 1 ELSE x.m_capacity * 2)
    ELSE x

\* for (i = from; i < to; ++i) m_data[i] = val;
RECURSIVE VectorN_fill(_, _, _, _)
VectorN_fill(x, from, to, val) ==
    IF from >= to \/ x.exc # "ok" THEN x
    ELSE VectorN_fill(VectorN_store(x, from, val), from + 1, to, val)

\* VectorN::resize
VectorN_resize(x, new_size, val) ==
    IF new_size < x.m_size THEN [x EXCEPT !.m_size = new_size]
    ELSE IF new_size > x.m_size
    THEN LET x1 == IF new_size > x.m_capacity THEN VectorN_reserve(x, new_size) ELSE x
             x2 == VectorN_fill(x1, x1.m_size, new_size, val)
         IN  IF x2.exc # "ok" THEN x2 ELSE [x2 EXCEPT !.m_size = new_size]
    ELSE x

\* VectorN::push_back
VectorN_push_back(x, val) ==
    LET x1 == VectorN_grow(x)
        x2 == IF x1.exc # "ok" THEN x1 ELSE VectorN_store(x1, x1.m_size, val)
    IN  IF x2.exc # "ok" THEN x2 ELSE [x2 EXCEPT !.m_size = @ + 1]

\* VectorN::push_front
VectorN_push_front(x, val) ==
    LET x1 == VectorN_grow(x)
        x2 == IF x1.exc # "ok" THEN x1 ELSE VectorN_shift_up(x1, x1.m_size, 0)
        x3 == IF x2.exc # "ok" THEN x2 ELSE VectorN_store(x2, 0, val)
    IN  IF x3.exc # "ok" THEN x3 ELSE [x3 EXCEPT !.m_size = @ + 1]

\* VectorN::pop_back
VectorN_pop_back(x) == IF x.m_size > 0 THEN [x EXCEPT !.m_size = @ - 1] ELSE x

\* VectorN::pop_front
VectorN_pop_front(x) ==
    IF x.m_size = 0 THEN x
    ELSE LET x1 == VectorN_shift_down(x, 0)
         IN  IF x1.exc # "ok" THEN x1 ELSE [x1 EXCEPT !.m_size = @ - 1]

\* VectorN::clear
VectorN_clear(x) == [x EXCEPT !.m_size = 0]

\* VectorN::insert, with index = pos - begin()
VectorN_insert(x, index, val) ==
    IF index > x.m_size THEN Throw(x, "out_of_range")
    ELSE LET x1 == VectorN_grow(x)
             x2 == IF x1.exc # "ok" THEN x1 ELSE VectorN_shift_up(x1, x1.m_size, index)
             x3 == IF x2.exc # "ok" THEN x2 ELSE VectorN_store(x2, index, val)
         IN  IF x3.exc # "ok" THEN x3 ELSE [x3 EXCEPT !.m_size = @ + 1]

\* VectorN::erase, with index = pos - begin()
VectorN_erase(x, index) ==
    IF index >= x.m_size THEN Throw(x, "out_of_range")
    ELSE LET x1 == VectorN_shift_down(x, index)
         IN  IF x1.exc # "ok" THEN x1 ELSE [x1 EXCEPT !.m_size = @ - 1]

\* VectorN::assign
VectorN_assign(x, count, value) ==
    LET x1 == [x EXCEPT !.m_size = count, !.m_capacity = count,
                        !.m_data = VectorN_new(count)]
    IN  VectorN_fill(x1, 0, count, value)

\* VectorN::swap, on the two objects a and b of vs
VectorN_swap(vs, a, b) == [vs EXCEPT ![a] = vs[b], ![b] = vs[a]]

VectorN_NoArgs == [op |-> "none", v |-> 0, other |-> 0, n |-> 0, val |-> 0]

\* The call c on vector v ends with the object in state r.
VectorN_Commit(vs, exc, c) ==
    /\ ncalls < MaxVectorCalls
    /\ \A v \in Vectors : vs[v].m_capacity <= MaxCapacity
    /\ vec' = IF exc = "crash" THEN vec
              ELSE [v \in Vectors |-> [vs[v] EXCEPT !.exc = "ok"]]
    /\ outcome' = exc
    /\ call' = c
    /\ pre' = vec
    /\ ncalls' = ncalls + 1
    /\ UNCHANGED <<prev, next, m_head, m_tail, m_size, ref, lst>>

VectorN_Step(v, r, c) == VectorN_Commit([vec EXCEPT ![v] = r], r.exc, c)

VectorNReserve(v, n) ==
    /\ Running
    /\ VectorN_Step(v, VectorN_reserve(vec[v], n),
                    [VectorN_NoArgs EXCEPT !.op = "reserve", !.v = v, !.n = n])

VectorNResize(v, n, val) ==
    /\ Running
    /\ VectorN_Step(v, VectorN_resize(vec[v], n, val),
                    [VectorN_NoArgs EXCEPT !.op = "resize", !.v = v, !.n = n, !.val = val])

VectorNPushBack(v, val) ==
    /\ Running
    /\ VectorN_Step(v, VectorN_push_back(vec[v], val),
                    [VectorN_NoArgs EXCEPT !.op = "push_back", !.v = v, !.val = val])

VectorNPushFront(v, val) ==
    /\ Running
    /\ VectorN_Step(v, VectorN_push_front(vec[v], val),
                    [VectorN_NoArgs EXCEPT !.op = "push_front", !.v = v, !.val = val])

VectorNPopBack(v) ==
    /\ Running
    /\ VectorN_Step(v, VectorN_pop_back(vec[v]),
                    [VectorN_NoArgs EXCEPT !.op = "pop_back", !.v = v])

VectorNPopFront(v) ==
    /\ Running
    /\ VectorN_Step(v, VectorN_pop_front(vec[v]),
                    [VectorN_NoArgs EXCEPT !.op = "pop_front", !.v = v])

VectorNInsert(v, index, val) ==
    /\ Running
    /\ index <= vec[v].m_size
    /\ VectorN_Step(v, VectorN_insert(vec[v], index, val),
                    [VectorN_NoArgs EXCEPT !.op = "insert", !.v = v, !.n = index, !.val = val])

VectorNErase(v, index) ==
    /\ Running
    /\ index <= vec[v].m_size
    /\ VectorN_Step(v, VectorN_erase(vec[v], index),
                    [VectorN_NoArgs EXCEPT !.op = "erase", !.v = v, !.n = index])

VectorNAssign(v, count, val) ==
    /\ Running
    /\ VectorN_Step(v, VectorN_assign(vec[v], count, val),
                    [VectorN_NoArgs EXCEPT !.op = "assign", !.v = v, !.n = count, !.val = val])

VectorNClear(v) ==
    /\ Running
    /\ VectorN_Step(v, VectorN_clear(vec[v]),
                    [VectorN_NoArgs EXCEPT !.op = "clear", !.v = v])

VectorNSwap(v, other) ==
    /\ Running
    /\ VectorN_Commit(VectorN_swap(vec, v, other), "ok",
                      [VectorN_NoArgs EXCEPT !.op = "swap", !.v = v, !.other = other])

NextVectorN ==
    \/ \E v \in Vectors, n \in 0..MaxCapacity : VectorNReserve(v, n)
    \/ \E v \in Vectors, n \in 0..MaxCapacity, val \in Data : VectorNResize(v, n, val)
    \/ \E v \in Vectors, val \in Data : VectorNPushBack(v, val)
    \/ \E v \in Vectors, val \in Data : VectorNPushFront(v, val)
    \/ \E v \in Vectors : VectorNPopBack(v)
    \/ \E v \in Vectors : VectorNPopFront(v)
    \/ \E v \in Vectors, index \in 0..MaxCapacity, val \in Data : VectorNInsert(v, index, val)
    \/ \E v \in Vectors, index \in 0..MaxCapacity : VectorNErase(v, index)
    \/ \E v \in Vectors, count \in 0..MaxCapacity, val \in Data : VectorNAssign(v, count, val)
    \/ \E v \in Vectors : VectorNClear(v)
    \/ \E v \in Vectors, other \in Vectors : VectorNSwap(v, other)

SpecVectorN == Init /\ [][NextVectorN]_vars

\* C33: for the VectorN objects, after every call: size() <= capacity();
\* reserve(n) leaves size() and the elements stored as they were and gives
\* capacity() >= n; resize to a smaller size and clear() leave capacity()
\* no smaller than it was; resize(n, v) to a larger size leaves the elements
\* that were stored and sets every new position to v.
C33_VectorNSizeWithinCapacity ==
    /\ \A v \in Vectors : VectorN_size(vec[v]) <= VectorN_capacity(vec[v])
    /\ call.op = "reserve"
          => /\ outcome = "ok"
             /\ VectorN_size(vec[call.v]) = VectorN_size(pre[call.v])
             /\ VectorN_Elements(vec[call.v]) = VectorN_Elements(pre[call.v])
             /\ VectorN_capacity(vec[call.v]) >= call.n
    /\ (\/ call.op = "clear"
        \/ call.op = "resize" /\ call.n < VectorN_size(pre[call.v]))
          => /\ outcome = "ok"
             /\ VectorN_capacity(vec[call.v]) >= VectorN_capacity(pre[call.v])
    /\ (call.op = "resize" /\ call.n > VectorN_size(pre[call.v]))
          => /\ outcome = "ok"
             /\ VectorN_size(vec[call.v]) = call.n
             /\ VectorN_Elements(vec[call.v])
                   = VectorN_Elements(pre[call.v])
                     \o [i \in 1..(call.n - VectorN_size(pre[call.v])) |-> call.val]

\* C33 witness: reserve(n) has raised the capacity of a vector that holds
\* two elements or more, one of them of each value.
C33_ReservedBeyondElements ==
    /\ call.op = "reserve"
    /\ outcome = "ok"
    /\ VectorN_size(pre[call.v]) >= 2
    /\ Range(VectorN_Elements(pre[call.v])) = Data
    /\ call.n > VectorN_capacity(pre[call.v])
    /\ VectorN_capacity(vec[call.v]) = call.n

====
